---- MODULE Spec2Model ----
(***************************************************************************)
(* Model of the chat client's session loop (src/src/main.rs): the startup  *)
(* prompt, the render/input loop, send_or_reconnect, the /server, /clear   *)
(* and /join commands, and the receive tasks spawned per connection.       *)
(*                                                                         *)
(* Text is modelled as a sequence of one-character strings so that trim,   *)
(* starts_with, split_whitespace, find and remove are computed as the code *)
(* computes them.                                                          *)
(***************************************************************************)
EXTENDS Integers, Sequences, FiniteSets, TLC

VARIABLES
    pc,               \* position of main: prompt, drain, draw, poll, done, panicked
    server_url,       \* main.rs:123 `server_url`
    mode,             \* main.rs:158 `mode`
    current_room,     \* main.rs:160 `current_room`
    scroll,           \* main.rs:161 `scroll`
    client_count,     \* main.rs:162 `client_count`
    tried_reconnect,  \* main.rs:163 `tried_reconnect`
    messages,         \* main.rs:121 `messages` (the shared Vec behind the mutex)
    chan,             \* main.rs:148 the unbounded channel msg_tx -> msg_rx
    ws_sink,          \* main.rs:147 the connection `ws_sink` writes to: none
                      \* (before startup), open, or closed at the transport level
    ws_task,          \* main.rs:150 the receive task spawned on that connection:
                      \* none, running or exited
    orphans,          \* the receive tasks of replaced connections that are still
                      \* running (every replaced connection is closed)
    messages_height,  \* main.rs:167
    total_msgs,       \* main.rs:176
    max_scroll,       \* main.rs:177
    own,              \* how many messages at the end of chan were decoded by the
                      \* receive task of the connection of ws_sink (history)
    last,             \* what the step just taken did, when it ran a handler, or
                      \* read a frame that is not text or does not parse (history)
    hist              \* whether send_or_reconnect has yet called connect_ws, and
                      \* whether such a call has yet succeeded (history)

vars == <<pc, server_url, mode, current_room, scroll, client_count,
          tried_reconnect, messages, chan, ws_sink, ws_task, orphans,
          messages_height, total_msgs, max_scroll, own, last, hist>>

-----------------------------------------------------------------------------
(* Bounds of the model *)

\* receive tasks of replaced connections that may be running at once
MaxOrphans == 1
\* messages that may be held by the log and the channel together
MaxLog == 2
\* largest messages_height the terminal reports
MaxHeight == 1

-----------------------------------------------------------------------------
(* Text helpers: str::trim, starts_with, split_whitespace, find, remove *)

IsWhitespace(c) == c \in {" ", "\n", "\t"}

RECURSIVE TrimStart(_)
TrimStart(s) ==
    IF s = <<>> THEN <<>>
    ELSE IF IsWhitespace(Head(s)) THEN TrimStart(Tail(s))
    ELSE s

RECURSIVE TrimEnd(_)
TrimEnd(s) ==
    IF s = <<>> THEN <<>>
    ELSE IF IsWhitespace(s[Len(s)]) THEN TrimEnd(SubSeq(s, 1, Len(s) - 1))
    ELSE s

Trim(s) == TrimEnd(TrimStart(s))

StartsWith(s, p) == Len(s) >= Len(p) /\ SubSeq(s, 1, Len(p)) = p

\* tokens of s separated by runs of whitespace; cur is the token being read
RECURSIVE SplitFrom(_, _)
SplitFrom(s, cur) ==
    IF s = <<>> THEN (IF cur = <<>> THEN <<>> ELSE <<cur>>)
    ELSE IF IsWhitespace(Head(s))
         THEN (IF cur = <<>> THEN <<>> ELSE <<cur>>) \o SplitFrom(Tail(s), <<>>)
         ELSE SplitFrom(Tail(s), Append(cur, Head(s)))

SplitWhitespace(s) == SplitFrom(s, <<>>)

\* index of the first c in s, 0 when there is none
Find(s, c) ==
    IF \E i \in 1..Len(s) : s[i] = c
    THEN CHOOSE i \in 1..Len(s) : s[i] = c /\ \A j \in 1..(i - 1) : s[j] # c
    ELSE 0

Remove(s, i) == SubSeq(s, 1, i - 1) \o SubSeq(s, i + 1, Len(s))

ToAsciiLower(c) == IF c = "Q" THEN "q" ELSE c

EqIgnoreAsciiCase(s, t) ==
    /\ Len(s) = Len(t)
    /\ \A i \in 1..Len(s) : ToAsciiLower(s[i]) = ToAsciiLower(t[i])

-----------------------------------------------------------------------------
(* Inputs *)

DefaultUrl == <<"ws://127.0.0.1:9001">>

\* lines read from stdin by the startup prompt
StdinLines == { <<"q", "\n">>, <<"Q", "\n">>, <<"\n">>, <<"u", "\n">> }

\* The text of `input` (main.rs:159) is not kept in the state: the character
\* keys and Backspace only edit it, and Enter drains it, so Enter draws the
\* line it finds in `input` from Lines.
Lines == {
    <<>>,
    <<" ">>,
    <<" ", "a">>,
    <<"/", "q", "u", "i", "t">>,
    <<"/", "c", "l", "e", "a", "r">>,
    <<"/", "c", "o", "l", "o", "r", " ", "#", "f">>,
    <<"/", "j", "o", "i", "n", " ", "r">>,
    <<"/", "j", "o", "i", "n", " ">>,
    <<"/", "s", "e", "r", "v", "e", "r", " ", "u">>,
    <<"/", "s", "e", "r", "v", "e", "r", " ">> }

IsPrefix(s, t) == Len(s) <= Len(t) /\ SubSeq(t, 1, Len(s)) = s

\* frames a server sends that decode as MessageData
ServerMsgs == {
    [msg_type |-> "chat", sender |-> "bob", color |-> "00ff00",
     content |-> <<"hi">>, room |-> "general", client_count |-> 2],
    [msg_type |-> "chat", sender |-> "eve", color |-> "",
     content |-> <<"yo">>, room |-> "general", client_count |-> 0] }

\* frames a server sends: kind is the variant of tungstenite's Message,
\* json says whether the payload parses as MessageData, and data is the
\* MessageData the payload spells (for a payload that does not parse: what
\* it was meant to spell)
ServerFrames ==
    {[kind |-> "Text", json |-> TRUE, data |-> m] : m \in ServerMsgs}
        \cup {[kind |-> "Text", json |-> FALSE, data |-> m] : m \in ServerMsgs}
        \cup {[kind |-> "Binary", json |-> TRUE, data |-> m] : m \in ServerMsgs}

-----------------------------------------------------------------------------
(* Status messages pushed by the client itself *)

Status(color, content) ==
    [msg_type |-> "status", sender |-> "system", color |-> color,
     content |-> content, room |-> "", client_count |-> 0]

Disconnected == Status("FF0000", <<"Disconnected from server.">>)
Reconnected  == Status("00FF00", <<"Reconnected to server.">>)
FailedTo(url) == Status("FF0000", <<"Failed to connect to ">> \o url \o <<". Try again.">>)
ConnectedTo(url) == Status("00FF00", <<"Connected to ">> \o url \o <<".">>)

-----------------------------------------------------------------------------
(* History: what the handler run by the last step did *)

TextFrame(c, text) == [conn |-> c, kind |-> "Text", text |-> text]
CloseFrame(c) == [conn |-> c, kind |-> "Close", text |-> <<>>]

\* op: the handler; line: the line submitted; called: send_or_reconnect was
\* called, with text as its msg, wrote as the outcome of its first write and
\* ret as its return value; connects: the urls connect_ws was called with;
\* tries: the frames handed to ws_sink.send; frames: those of them that were
\* written (conn: "old" for the connection ws_sink wrote to when the handler
\* was entered, "new" for the one connect_ws returned to it); spawned: ws_sink
\* was assigned the connection connect_ws returned and a receive task was
\* spawned on it; tried0, log0, mode0, url0, sink0, task0, orphans0, hist0:
\* tried_reconnect, messages, mode, server_url, ws_sink, ws_task, orphans and
\* hist when the handler was entered
NoOp == [op |-> "none", line |-> <<>>, text |-> <<>>, called |-> FALSE,
         wrote |-> FALSE, ret |-> FALSE, connects |-> <<>>, tries |-> <<>>,
         frames |-> <<>>, spawned |-> FALSE, tried0 |-> FALSE, log0 |-> <<>>,
         mode0 |-> "Nickname", url0 |-> <<>>, sink0 |-> "none",
         task0 |-> "none", orphans0 |-> 0,
         hist0 |-> [tried |-> FALSE, ok |-> FALSE]]

Did(op) == [NoOp EXCEPT !.op = op, !.tried0 = tried_reconnect,
                        !.log0 = messages, !.mode0 = mode, !.url0 = server_url,
                        !.sink0 = ws_sink, !.task0 = ws_task,
                        !.orphans0 = orphans, !.hist0 = hist]

-----------------------------------------------------------------------------
(* Connections *)

\* outcomes connect_ws may have: it may succeed while the task of the
\* connection it would replace can be counted
ConnectOutcomes ==
    IF ws_task = "running" /\ orphans >= MaxOrphans THEN {FALSE} ELSE BOOLEAN

\* the tasks of replaced connections once ws_sink is assigned a new one
OrphansAfter == IF ws_task = "running" THEN orphans + 1 ELSE orphans

\* the log and the channel have room for n more messages
Room(n) == Len(messages) + Len(chan) + n <= MaxLog

\* ws_sink.send(..).await.is_ok(): a write succeeds on an open connection
WriteOk == ws_sink = "open"

\* (variant: the flag is left as it was)
TriedAfterReconnect_Unset == FALSE

\* main.rs:88: the flag after a successful automatic reconnect
TriedAfterReconnect == TRUE

\* (variant: line 92 is live, and the text is written again)
ResentFrames_Resend(c, msg) == <<TextFrame(c, msg)>>

\* main.rs:92 (commented out): frames written to the new connection
ResentFrames(c, msg) == <<>>

\* (variant: the log is replaced by the message)
Push_Replacing(log, m) == <<m>>

\* Vec::push on the log
Push(log, m) == Append(log, m)

\* send_or_reconnect: the values it leaves behind and returns.
\* tried, msgs: tried_reconnect and the log afterwards; spawned: ws_sink was
\* assigned the new connection, and a receive task was spawned on it
send_or_reconnect(msg, connOk) ==
    IF WriteOk
    THEN [ret |-> TRUE, tried |-> tried_reconnect,
          msgs |-> messages, connects |-> <<>>,
          frames |-> <<TextFrame("old", msg)>>, spawned |-> FALSE]
    ELSE IF ~tried_reconnect
    THEN IF connOk
         THEN [ret |-> TRUE, tried |-> TriedAfterReconnect,
               msgs |-> Push(messages, Reconnected),
               connects |-> <<server_url>>,
               frames |-> ResentFrames("new", msg), spawned |-> TRUE]
         ELSE [ret |-> FALSE, tried |-> tried_reconnect,
               msgs |-> Push(messages, FailedTo(server_url)),
               connects |-> <<server_url>>, frames |-> <<>>, spawned |-> FALSE]
    ELSE [ret |-> FALSE, tried |-> tried_reconnect,
          msgs |-> messages, connects |-> <<>>, frames |-> <<>>,
          spawned |-> FALSE]

\* ws_sink is assigned the connection connect_ws returned and a receive task
\* is spawned on it: main.rs:86-87, 146-150, 303-307
Opened ==
    /\ ws_sink' = "open"
    /\ ws_task' = "running"
    /\ orphans' = OrphansAfter
    /\ own' = 0

\* the call send_or_reconnect(&mut ws_sink, &msg, &mut tried_reconnect, ..)
\* made by handler op
CallSend(op, line, msg) ==
    \E connOk \in ConnectOutcomes :
        LET r == send_or_reconnect(msg, connOk) IN
        /\ Len(r.msgs) + Len(chan) <= MaxLog
        /\ tried_reconnect' = r.tried
        /\ messages' = r.msgs
        /\ IF r.spawned THEN Opened
           ELSE UNCHANGED <<ws_sink, ws_task, orphans, own>>
        /\ hist' = [tried |-> hist.tried \/ r.connects # <<>>,
                    ok |-> hist.ok \/ r.spawned]
        /\ last' = [Did(op) EXCEPT
                       !.line = line, !.text = msg, !.called = TRUE,
                       !.wrote = WriteOk, !.ret = r.ret,
                       !.connects = r.connects,
                       !.tries = <<TextFrame("old", msg)>> \o
                                 (IF r.spawned THEN r.frames ELSE <<>>),
                       !.frames = r.frames, !.spawned = r.spawned]

-----------------------------------------------------------------------------
(* Initial state: main is entered, nothing is connected *)

Init ==
    /\ pc = "prompt"
    /\ server_url = <<>>
    /\ mode = "Nickname"
    /\ current_room = <<"general">>
    /\ scroll = 0
    /\ client_count = 0
    /\ tried_reconnect = FALSE
    /\ messages = <<>>
    /\ chan = <<>>
    /\ ws_sink = "none"
    /\ ws_task = "none"
    /\ orphans = 0
    /\ messages_height = 0
    /\ total_msgs = 0
    /\ max_scroll = 0
    /\ own = 0
    /\ last = NoOp
    /\ hist = [tried |-> FALSE, ok |-> FALSE]

-----------------------------------------------------------------------------
(* Startup prompt, main.rs:123-163 *)

\* what the prompt makes of a line: main.rs:129-137
PromptUrl(line) == IF Trim(line) = <<>> THEN DefaultUrl ELSE Trim(line)

\* "q": main returns
StartupQuit ==
    /\ pc = "prompt"
    /\ \E line \in StdinLines :
        /\ EqIgnoreAsciiCase(Trim(line), <<"q">>)
        /\ pc' = "done"
        /\ last' = Did("startup_quit")
    /\ UNCHANGED <<hist, own, server_url, mode, current_room, scroll, client_count,
                   tried_reconnect, messages, chan, ws_sink, ws_task, orphans,
                   messages_height, total_msgs, max_scroll>>

\* the probing connect_ws of line 139 fails: message printed, prompt again
StartupRetry ==
    /\ pc = "prompt"
    /\ \E line \in StdinLines :
        /\ ~EqIgnoreAsciiCase(Trim(line), <<"q">>)
        /\ last' = [Did("startup_retry") EXCEPT !.connects = <<PromptUrl(line)>>]
    /\ UNCHANGED <<hist, own, pc, server_url, mode, current_room, scroll, client_count,
                   tried_reconnect, messages, chan, ws_sink, ws_task, orphans,
                   messages_height, total_msgs, max_scroll>>

\* the probe succeeds (its connection is dropped), and connect_ws is called
\* again at line 146 and unwrapped
StartupConnect ==
    /\ pc = "prompt"
    /\ \E line \in StdinLines, ok2 \in BOOLEAN :
        /\ ~EqIgnoreAsciiCase(Trim(line), <<"q">>)
        /\ server_url' = PromptUrl(line)
        /\ last' = [Did("startup") EXCEPT
                       !.connects = <<PromptUrl(line), PromptUrl(line)>>,
                       !.spawned = ok2]
        /\ IF ok2
           THEN /\ pc' = "drain"
                /\ Opened
           ELSE /\ pc' = "panicked"
                /\ UNCHANGED <<ws_sink, ws_task, orphans, own>>
    /\ UNCHANGED <<hist, mode, current_room, scroll, client_count,
                   tried_reconnect, messages, chan,
                   messages_height, total_msgs, max_scroll>>

-----------------------------------------------------------------------------
(* The render/input loop, main.rs:165-366 *)

Heights == 0..MaxHeight

SatSub(a, b) == IF a > b THEN a - b ELSE 0

Min(a, b) == IF a < b THEN a ELSE b

Max(a, b) == IF a > b THEN a ELSE b

\* (variant: every drained message sets the count)
CountAfter_Always(count, msg) == msg.client_count

\* main.rs:170-172: the client count once msg is drained
CountAfter(count, msg) ==
    IF msg.client_count > 0 THEN msg.client_count ELSE count

\* main.rs:169-174: one round of `while let Ok(msg) = msg_rx.try_recv()`
DrainOne ==
    /\ pc = "drain"
    /\ chan # <<>>
    /\ client_count' = CountAfter(client_count, Head(chan))
    /\ messages' = Append(messages, Head(chan))
    /\ chan' = Tail(chan)
    /\ own' = Min(own, Len(chan) - 1)
    /\ last' = NoOp
    /\ UNCHANGED <<hist, pc, server_url, mode, current_room, scroll,
                   tried_reconnect, ws_sink, ws_task, orphans,
                   messages_height, total_msgs, max_scroll>>

\* main.rs:166-169, 176-180: the channel is empty; the scroll offset is
\* clamped. The terminal height of this iteration (read at line 166, and
\* not used before line 177) is drawn here.
DrainDone ==
    /\ pc = "drain"
    /\ chan = <<>>
    /\ \E h \in Heights :
        /\ messages_height' = h
        /\ total_msgs' = Len(messages)
        /\ max_scroll' = SatSub(Len(messages), h)
        /\ scroll' = IF scroll > SatSub(Len(messages), h)
                      THEN SatSub(Len(messages), h) ELSE scroll
    /\ pc' = "draw"
    /\ last' = NoOp
    /\ UNCHANGED <<hist, own, server_url, mode, current_room, client_count,
                   tried_reconnect, messages, chan, ws_sink, ws_task, orphans>>

\* (variant: the offset is left out of `start`)
WindowStart_NoScroll(total, height, sc) ==
    IF total > height THEN SatSub(total, height) ELSE 0

\* main.rs:191-197: `start` for a log of `total` messages
WindowStart(total, height, sc) ==
    IF total > height THEN SatSub(SatSub(total, height), sc) ELSE 0

\* (variant: `end` is not capped by total_msgs)
WindowEnd_Unclamped(total, height, sc) == WindowStart(total, height, sc) + height

\* main.rs:198-199: total_msgs.min(end)
WindowEnd(total, height, sc) == Min(total, WindowStart(total, height, sc) + height)

\* main.rs:199: msgs[start..total_msgs.min(end)]
Window(log, total, height, sc) ==
    SubSeq(log, WindowStart(total, height, sc) + 1, WindowEnd(total, height, sc))

\* the slice of main.rs:199 is within the log as locked in draw
SliceInBounds ==
    /\ WindowStart(total_msgs, messages_height, scroll)
          <= WindowEnd(total_msgs, messages_height, scroll)
    /\ WindowEnd(total_msgs, messages_height, scroll) <= Len(messages)

\* main.rs:182-234: the frame is drawn (the slice panics out of bounds)
Draw ==
    /\ pc = "draw"
    /\ pc' = IF SliceInBounds THEN "poll" ELSE "panicked"
    /\ last' = NoOp
    /\ UNCHANGED <<hist, own, server_url, mode, current_room, scroll, client_count,
                   tried_reconnect, messages, chan, ws_sink, ws_task, orphans,
                   messages_height, total_msgs, max_scroll>>

\* the loop body ends (to: "drain") or main leaves the loop (to: "done");
\* messages_height, total_msgs and max_scroll are locals of the loop body
LoopEnd(to) ==
    /\ pc' = to
    /\ messages_height' = 0
    /\ total_msgs' = 0
    /\ max_scroll' = 0

\* main.rs:236-237, 362: no event within 50 ms, or an event no arm handles
NoEvent ==
    /\ pc = "poll"
    /\ LoopEnd("drain")
    /\ UNCHANGED <<hist, own, server_url, mode, current_room, scroll, client_count,
                   tried_reconnect, messages, chan, ws_sink, ws_task, orphans, last>>

\* main.rs:239-245: a character key without Ctrl+C
KeyChar ==
    /\ pc = "poll"
    /\ LoopEnd("drain")
    /\ last' = NoOp
    /\ UNCHANGED <<hist, own, server_url, mode, current_room, scroll, client_count,
                   tried_reconnect, messages, chan, ws_sink, ws_task, orphans>>

\* main.rs:240-241: Ctrl+C
CtrlC ==
    /\ pc = "poll"
    /\ LoopEnd("done")
    /\ last' = Did("ctrl_c")
    /\ UNCHANGED <<hist, own, server_url, mode, current_room, scroll, client_count,
                   tried_reconnect, messages, chan, ws_sink, ws_task, orphans>>

\* main.rs:246-248
Backspace ==
    /\ pc = "poll"
    /\ LoopEnd("drain")
    /\ last' = NoOp
    /\ UNCHANGED <<hist, own, server_url, mode, current_room, scroll, client_count,
                   tried_reconnect, messages, chan, ws_sink, ws_task, orphans>>

\* main.rs:351
Esc ==
    /\ pc = "poll"
    /\ LoopEnd("done")
    /\ last' = Did("esc")
    /\ UNCHANGED <<hist, own, server_url, mode, current_room, scroll, client_count,
                   tried_reconnect, messages, chan, ws_sink, ws_task, orphans>>

\* (variant: the offset is incremented whatever max_scroll is)
ScrollUp_Unclamped(sc, max) == sc + 1

\* main.rs:353-355
ScrollUp(sc, max) == IF sc < max THEN sc + 1 ELSE sc

\* main.rs:358-360
ScrollDown(sc) == IF sc > 0 THEN sc - 1 ELSE sc

\* main.rs:352-356
Up ==
    /\ pc = "poll"
    /\ scroll' = ScrollUp(scroll, max_scroll)
    /\ LoopEnd("drain")
    /\ last' = Did("up")
    /\ UNCHANGED <<hist, own, server_url, mode, current_room, client_count,
                   tried_reconnect, messages, chan, ws_sink, ws_task, orphans>>

\* main.rs:357-361
Down ==
    /\ pc = "poll"
    /\ scroll' = ScrollDown(scroll)
    /\ LoopEnd("drain")
    /\ last' = Did("down")
    /\ UNCHANGED <<hist, own, server_url, mode, current_room, client_count,
                   tried_reconnect, messages, chan, ws_sink, ws_task, orphans>>

-----------------------------------------------------------------------------
(* Enter: the line is drained from `input`, main.rs:249-350 *)

L_quit   == <<"/", "q", "u", "i", "t">>
L_clear  == <<"/", "c", "l", "e", "a", "r">>
P_join   == <<"/", "j", "o", "i", "n", " ">>
P_color  == <<"/", "c", "o", "l", "o", "r", " ">>
P_server == <<"/", "s", "e", "r", "v", "e", "r", " ">>

\* (variant: "/quit" is not a command)
Command_NoQuit(msg) ==
    IF msg = L_clear THEN "clear"
    ELSE IF StartsWith(msg, P_join) THEN "join"
    ELSE IF StartsWith(msg, P_color) THEN "color"
    ELSE IF StartsWith(msg, P_server) THEN "server"
    ELSE "text"

\* the arm of the if/else-if chain of main.rs:281-337 a line takes
Command(msg) ==
    IF msg = L_quit THEN "quit"
    ELSE IF msg = L_clear THEN "clear"
    ELSE IF StartsWith(msg, P_join) THEN "join"
    ELSE IF StartsWith(msg, P_color) THEN "color"
    ELSE IF StartsWith(msg, P_server) THEN "server"
    ELSE "text"

\* the /server arm reconnects: main.rs:295-297
IsServerCmd(msg) == Command(msg) = "server" /\ Len(SplitWhitespace(msg)) >= 2

\* (variant: the Color arm goes back to Nickname)
mode_after_wrapping(m) == IF m = "Nickname" THEN "Color" ELSE "Nickname"

\* main.rs:266, 278: the mode after a handshake line
mode_after(m) == IF m = "Nickname" THEN "Color" ELSE "Chat"

\* (variant: the line is trimmed first)
HandshakeText_Trimmed(msg) == Trim(msg)

\* main.rs:257-265, 269-277: what a handshake line passes to send_or_reconnect
HandshakeText(msg) == msg

\* main.rs:291-294, 339-347: what a chat line passes to send_or_reconnect
ChatText(msg) ==
    IF Command(msg) = "color" /\ Find(msg, "#") # 0
    THEN Remove(msg, Find(msg, "#"))
    ELSE msg

\* (variant: parts[0] is taken for the room)
RoomAfter_FirstToken(msg) ==
    IF Command(msg) = "join" /\ Len(SplitWhitespace(msg)) >= 2
    THEN SplitWhitespace(msg)[1]
    ELSE current_room

\* main.rs:286-290
RoomAfter(msg) ==
    IF Command(msg) = "join" /\ Len(SplitWhitespace(msg)) >= 2
    THEN SplitWhitespace(msg)[2]
    ELSE current_room

\* (variant: parts[0] is taken)
ServerCmdUrl_FirstToken(msg) == SplitWhitespace(msg)[1]

\* main.rs:298: the url the /server arm connects to
ServerCmdUrl(msg) == SplitWhitespace(msg)[2]

\* (variant: a manual reconnect re-arms the automatic one)
ServerCmdTried_Reset == FALSE

\* main.rs:295-336: the /server arm does not assign tried_reconnect
ServerCmdTried == tried_reconnect

\* main.rs:250-251: the lines that are empty once trimmed
EmptyLines == {line \in Lines : Trim(line) = <<>>}

\* main.rs:254: the lines that reach the match on mode
SubmittedLines == Lines \ EmptyLines

\* main.rs:281, 283, 295-297: the lines that take the /quit, /clear and
\* /server arms in Chat, and those that go to send_or_reconnect
QuitLines == {line \in SubmittedLines : Command(line) = "quit"}
ClearLines == {line \in SubmittedLines : Command(line) = "clear"}
ServerLines == {line \in SubmittedLines : IsServerCmd(line)}
SendLines ==
    {line \in SubmittedLines :
        Command(line) \notin {"quit", "clear"} /\ ~IsServerCmd(line)}

\* main.rs:250-253: a line that is empty once trimmed is dropped
EnterEmpty ==
    /\ pc = "poll"
    /\ \E line \in EmptyLines :
        /\ last' = [Did("empty") EXCEPT !.line = line]
    /\ LoopEnd("drain")
    /\ UNCHANGED <<hist, own, server_url, mode, current_room, scroll, client_count,
                   tried_reconnect, messages, chan, ws_sink, ws_task, orphans>>

\* main.rs:256-279: the Nickname and Color arms
EnterHandshake ==
    /\ pc = "poll"
    /\ mode \in {"Nickname", "Color"}
    /\ \E line \in SubmittedLines :
        /\ CallSend("handshake", line, HandshakeText(line))
        /\ mode' = mode_after(mode)
    /\ LoopEnd("drain")
    /\ UNCHANGED <<server_url, current_room, scroll, client_count, chan>>

\* main.rs:281-282
EnterQuit ==
    /\ pc = "poll"
    /\ mode = "Chat"
    /\ \E line \in QuitLines :
        /\ last' = [Did("quit") EXCEPT !.line = line]
    /\ LoopEnd("done")
    /\ UNCHANGED <<hist, own, server_url, mode, current_room, scroll, client_count,
                   tried_reconnect, messages, chan, ws_sink, ws_task, orphans>>

\* main.rs:283-285
EnterClear ==
    /\ pc = "poll"
    /\ mode = "Chat"
    /\ \E line \in ClearLines :
        /\ messages' = <<>>
        /\ last' = [Did("clear") EXCEPT !.line = line]
    /\ LoopEnd("drain")
    /\ UNCHANGED <<hist, own, server_url, mode, current_room, scroll, client_count,
                   tried_reconnect, chan, ws_sink, ws_task, orphans>>

\* main.rs:295-336: /server with a url
EnterServer ==
    /\ pc = "poll"
    /\ mode = "Chat"
    /\ Room(1)
    /\ \E line \in ServerLines :
        /\ server_url' = ServerCmdUrl(line)
        /\ tried_reconnect' = ServerCmdTried
        /\ \E connOk \in ConnectOutcomes :
            LET url == ServerCmdUrl(line) IN
            /\ IF connOk
               THEN /\ Opened
                    /\ messages' = Push(messages, ConnectedTo(url))
               ELSE \* a close frame that is written closes the connection
                    /\ ws_sink' = IF WriteOk THEN "closed" ELSE ws_sink
                    /\ messages' = Push(messages, FailedTo(url))
                    /\ UNCHANGED <<ws_task, orphans, own>>
            /\ last' = [Did("server") EXCEPT
                           !.line = line,
                           !.connects = <<url>>,
                           !.tries = <<CloseFrame("old")>>,
                           !.frames = IF WriteOk THEN <<CloseFrame("old")>>
                                      ELSE <<>>,
                           !.spawned = connOk]
    /\ LoopEnd("drain")
    /\ UNCHANGED <<hist, mode, current_room, scroll, client_count, chan>>

\* main.rs:286-294, 339-347: every other chat line goes to send_or_reconnect
EnterChat ==
    /\ pc = "poll"
    /\ mode = "Chat"
    /\ \E line \in SendLines :
        /\ current_room' = RoomAfter(line)
        /\ CallSend("chat", line, ChatText(line))
    /\ LoopEnd("drain")
    /\ UNCHANGED <<server_url, mode, scroll, client_count, chan>>

-----------------------------------------------------------------------------
(* The receive task of a connection, main.rs:50-66, and its server *)

Running == pc \notin {"prompt", "done", "panicked"}

\* (variant: every text frame is taken to decode)
Decode_Lenient(f) == IF f.kind = "Text" THEN <<f.data>> ELSE <<>>

\* main.rs:52-56: what a frame read from the stream sends into the channel
Decode(f) == IF f.kind = "Text" /\ f.json THEN <<f.data>> ELSE <<>>

\* main.rs:51-57: a frame is read; a text frame that decodes is sent into the
\* channel, any other frame is dropped
\* (a replaced connection is closed, and delivers no more frames)
TaskRecv ==
    /\ Running
    /\ ws_task = "running"
    /\ ws_sink = "open"
    /\ \E f \in ServerFrames :
        /\ Len(messages) + Len(chan) + Len(Decode(f)) <= MaxLog
        /\ chan' = chan \o Decode(f)
        /\ own' = own + Len(Decode(f))
        /\ last' = IF f.kind = "Text" /\ f.json THEN NoOp
                   ELSE [NoOp EXCEPT !.op = "bad_frame"]
    /\ UNCHANGED <<hist, pc, server_url, mode, current_room, scroll, client_count,
                   tried_reconnect, messages, ws_sink, ws_task, orphans,
                   messages_height, total_msgs, max_scroll>>

\* main.rs:51, 58-65: the stream ends or fails; the task pushes its status
\* message into the log and ends
TaskExit ==
    /\ Running
    /\ Room(1)
    /\ \/ /\ ws_task = "running"
          /\ ws_sink = "closed"
          /\ ws_task' = "exited"
          /\ UNCHANGED orphans
       \/ /\ orphans > 0
          /\ orphans' = orphans - 1
          /\ UNCHANGED ws_task
    /\ messages' = Push(messages, Disconnected)
    /\ last' = NoOp
    /\ UNCHANGED <<hist, own, pc, server_url, mode, current_room, scroll, client_count,
                   tried_reconnect, chan, ws_sink,
                   messages_height, total_msgs, max_scroll>>

\* the server, or the network, closes the connection
ServerClose ==
    /\ Running
    /\ ws_sink = "open"
    /\ ws_sink' = "closed"
    /\ last' = NoOp
    /\ UNCHANGED <<hist, own, pc, server_url, mode, current_room, scroll, client_count,
                   tried_reconnect, messages, chan, ws_task, orphans,
                   messages_height, total_msgs, max_scroll>>

-----------------------------------------------------------------------------

Next ==
    \/ StartupQuit \/ StartupRetry \/ StartupConnect
    \/ DrainOne \/ DrainDone \/ Draw
    \/ NoEvent \/ KeyChar \/ CtrlC \/ Backspace \/ Esc \/ Up \/ Down
    \/ EnterEmpty \/ EnterHandshake \/ EnterQuit \/ EnterClear
    \/ EnterServer \/ EnterChat
    \/ TaskRecv \/ TaskExit \/ ServerClose

Spec == Init /\ [][Next]_vars

-----------------------------------------------------------------------------
(* Properties *)

\* the last step called send_or_reconnect and its frame write failed
SendFailed == last.called /\ ~last.wrote

\* the last step's automatic connect_ws succeeded
AutoReconnected == SendFailed /\ last.spawned

Rank(m) == CASE m = "Nickname" -> 0 [] m = "Color" -> 1 [] m = "Chat" -> 2

IsFailedTo(m) ==
    /\ m.msg_type = "status"
    /\ IsPrefix(<<"Failed to connect to ">>, m.content)

IsConnectedTo(m) ==
    /\ m.msg_type = "status"
    /\ IsPrefix(<<"Connected to ">>, m.content)

C2_DropOnReconnect ==
    AutoReconnected =>
        /\ last.ret
        /\ last.sink0 = "closed" /\ ws_sink = "open"
        /\ ws_task = "running"
        /\ orphans = last.orphans0 + (IF last.task0 = "running" THEN 1 ELSE 0)
        /\ messages = Append(last.log0, Reconnected)
        /\ \A i \in 1..Len(last.frames) : last.frames[i].text # last.text
        /\ last.frames = <<>>
        /\ \A i \in 1..Len(last.tries) : last.tries[i].conn = "old"

C2_Witness == AutoReconnected /\ last.text # <<>>

\* C3 (as claimed): once a send has called connect_ws, whether or not the
\* call succeeded, a later send whose write fails returns false and calls
\* connect_ws no more.
C3_Claim ==
    (SendFailed /\ last.hist0.tried) => (~last.ret /\ last.connects = <<>>)

\* C4: tried_reconnect never goes from true to false; after an automatic
\* reconnect has succeeded no send whose write fails calls connect_ws,
\* whatever /server did in between, and only /server replaces ws_sink.
C4_FlagNeverReset ==
    [][ /\ tried_reconnect => tried_reconnect'
        /\ (hist.ok /\ last'.called /\ ~last'.wrote) =>
              (last'.connects = <<>> /\ ~last'.ret /\ ~last'.spawned
               /\ ws_sink' = ws_sink /\ ws_task' = ws_task)
        /\ (hist.ok /\ (last'.spawned \/ (ws_sink' = "open" /\ ws_sink # "open")))
              => last'.op = "server"
      ]_vars

\* a /server reconnect succeeds after an automatic reconnect, and the flag stays
C4_Witness ==
    /\ last.op = "server" /\ last.spawned
    /\ last.hist0.ok /\ last.tried0 /\ tried_reconnect

\* C5: the mode starts at Nickname; a non-empty line submitted in Nickname
\* (Color) is passed to send_or_reconnect as it is and the mode becomes Color
\* (Chat); in Chat, "/clear" calls neither send_or_reconnect nor ws_sink.send,
\* and a plain line is passed to send_or_reconnect as it is, and written as
\* it is when the write succeeds.
C5_Handshake ==
    /\ mode = "Nickname"
    /\ [][ /\ mode' # mode =>
               /\ last'.op = "handshake"
               /\ \/ mode = "Nickname" /\ mode' = "Color"
                  \/ mode = "Color" /\ mode' = "Chat"
           /\ last'.op = "handshake" =>
               /\ mode \in {"Nickname", "Color"} /\ mode' # mode
               /\ Trim(last'.line) # <<>>
               /\ last'.called /\ last'.text = last'.line
               /\ last'.wrote => last'.frames = <<TextFrame("old", last'.line)>>
           /\ (mode = "Chat" /\ last'.line = L_clear /\ last'.op # "none") =>
               /\ last'.op = "clear"
               /\ ~last'.called /\ last'.tries = <<>> /\ last'.frames = <<>>
           /\ (mode = "Chat" /\ last'.op # "none" /\ Trim(last'.line) # <<>>
                  /\ Head(TrimStart(last'.line)) # "/") =>
               /\ last'.called /\ last'.text = last'.line
               /\ last'.wrote => last'.frames = <<TextFrame("old", last'.line)>>
          ]_vars

\* a plain line is written upstream in Chat
C5_Witness ==
    /\ last.mode0 = "Chat" /\ last.called /\ last.wrote
    /\ last.line = <<" ", "a">> /\ last.frames = <<TextFrame("old", <<" ", "a">>)>>

\* C6 (as claimed): after a line is submitted in Nickname the log holds
\* nothing but the status message send_or_reconnect may have pushed.
C6_Claim ==
    (last.op = "handshake" /\ last.mode0 = "Nickname") =>
        /\ mode = "Color"
        /\ \/ messages = <<>>
           \/ messages = <<Reconnected>>
           \/ messages = <<FailedTo(server_url)>>

\* C6 (amended): after a line is submitted in Nickname the mode is Color and
\* the log still starts with every message it held, in the same order.
C6_Amended ==
    (last.op = "handshake" /\ last.mode0 = "Nickname") =>
        /\ mode = "Color"
        /\ IsPrefix(last.log0, messages)
        /\ Len(messages) <= Len(last.log0) + 1

\* a nickname is submitted while the log holds messages, and a status follows
C6_Witness ==
    /\ last.op = "handshake" /\ last.mode0 = "Nickname"
    /\ last.log0 # <<>> /\ Len(messages) = Len(last.log0) + 1

\* C7 (as claimed): the mode never moves back, and /server, /clear, a failed
\* send and an automatic reconnect leave it as it is.
C7_Claim ==
    [][ /\ Rank(mode') >= Rank(mode)
        /\ ( \/ last'.op \in {"server", "clear"}
             \/ last'.called /\ ~last'.ret
             \/ last'.called /\ ~last'.wrote /\ last'.spawned )
           => mode' = mode
      ]_vars

\* C7 (amended): the mode never moves back; /server and /clear leave it as
\* it is, and so do a failed send and an automatic reconnect in Chat; a line
\* submitted in Nickname or Color moves the mode one step forward also when
\* its send fails or reconnects.
C7_Amended ==
    [][ /\ Rank(mode') >= Rank(mode)
        /\ last'.op \in {"server", "clear"} => mode' = mode
        /\ ( \/ last'.called /\ ~last'.ret
             \/ last'.called /\ ~last'.wrote /\ last'.spawned )
           => IF mode = "Chat" THEN mode' = "Chat"
              ELSE Rank(mode') = Rank(mode) + 1
      ]_vars

\* a nickname whose send failed has moved the mode to Color
C7_Witness ==
    /\ last.op = "handshake" /\ last.mode0 = "Nickname"
    /\ ~last.ret /\ mode = "Color"

\* C8 (as claimed): when the connect of "/server <url>" fails a "Failed to
\* connect" message is appended and server_url is as before; server_url
\* becomes <url> only when the connect succeeds.
C8_Claim ==
    last.op = "server" =>
        IF ~last.spawned
        THEN /\ messages # <<>> /\ IsFailedTo(messages[Len(messages)])
             /\ server_url = last.url0
        ELSE server_url = SplitWhitespace(last.line)[2]

\* C9: "/server <url>" in Chat does not call send_or_reconnect and writes no
\* text frame; it hands one close frame to the current connection, calls
\* connect_ws once, with <url>, appends one status message ("Connected to"
\* on success, "Failed to connect to" otherwise), replaces ws_sink and spawns
\* a receive task only on success, and leaves mode and tried_reconnect as
\* they were. "/server" with no second token goes to send_or_reconnect as it is.
C9_ServerCmd ==
    /\ last.op = "server" =>
        /\ last.mode0 = "Chat" /\ mode = "Chat"
        /\ StartsWith(last.line, P_server) /\ Len(SplitWhitespace(last.line)) >= 2
        /\ ~last.called
        /\ last.tries = <<CloseFrame("old")>>
        /\ \A i \in 1..Len(last.frames) : last.frames[i].kind = "Close"
        /\ last.connects = <<SplitWhitespace(last.line)[2]>>
        /\ Len(messages) = Len(last.log0) + 1
        /\ SubSeq(messages, 1, Len(last.log0)) = last.log0
        /\ tried_reconnect = last.tried0
        /\ IF last.spawned
           THEN /\ IsConnectedTo(messages[Len(messages)])
                /\ ws_sink = "open" /\ ws_task = "running"
                /\ orphans = last.orphans0
                             + (IF last.task0 = "running" THEN 1 ELSE 0)
           ELSE /\ IsFailedTo(messages[Len(messages)])
                /\ ws_sink # "open"
                /\ ws_sink = (IF last.sink0 = "open" THEN "closed"
                              ELSE last.sink0)
                /\ ws_task = last.task0 /\ orphans = last.orphans0
    /\ ( /\ last.op # "none" /\ last.mode0 = "Chat"
         /\ StartsWith(last.line, P_server)
         /\ Len(SplitWhitespace(last.line)) >= 2 ) => last.op = "server"
    /\ ( /\ last.op # "none" /\ last.mode0 = "Chat"
         /\ StartsWith(last.line, <<"/", "s", "e", "r", "v", "e", "r">>)
         /\ Len(SplitWhitespace(last.line)) < 2 ) =>
            (last.op = "chat" /\ last.called /\ last.text = last.line)

\* a /server reconnect has succeeded
C9_Witness == last.op = "server" /\ last.spawned /\ last.frames # <<>>

\* C10 (as claimed): "/clear" in Chat empties the log, sets scroll to 0, keeps
\* the mode, sends nothing, and the window of the emptied log is empty for
\* every height.
C10_Claim ==
    last.op = "clear" =>
        /\ messages = <<>>
        /\ scroll = 0
        /\ mode = "Chat" /\ last.mode0 = "Chat"
        /\ ~last.called /\ last.tries = <<>>
        /\ \A h \in Heights : Window(messages, Len(messages), h, scroll) = <<>>

\* C12: at every render 0 <= scroll <= max(0, total - height), for the length
\* of the log read at line 176 and for the log as it is when drawn; Up adds
\* one to scroll unless it is at that maximum, Down takes one unless it is 0.
C12_ScrollRange ==
    /\ [](pc = "draw" =>
            /\ 0 <= scroll
            /\ max_scroll = SatSub(total_msgs, messages_height)
            /\ scroll <= SatSub(total_msgs, messages_height)
            /\ scroll <= SatSub(Len(messages), messages_height))
    /\ [][ /\ last'.op = "up" =>
               /\ scroll' = Min(scroll + 1,
                                Max(scroll, SatSub(total_msgs, messages_height)))
               /\ scroll' <= SatSub(Len(messages'), messages_height)
           /\ last'.op = "down" => scroll' = Max(scroll - 1, 0)
           /\ (scroll' > scroll) => (last'.op = "up" /\ scroll' = scroll + 1)
           /\ (scroll' < scroll) =>
                 \/ last'.op = "down" /\ scroll' = scroll - 1
                 \/ pc = "drain" /\ pc' = "draw"
                    /\ scroll' = SatSub(Len(messages), messages_height')
         ]_vars

\* Up has moved the window one message back
C12_Witness == last.op = "up" /\ scroll = 1 /\ last.log0 # <<>>

C20_SliceInBounds ==
    /\ pc = "draw" =>
          /\ WindowStart(total_msgs, messages_height, scroll)
                <= Min(total_msgs,
                       WindowStart(total_msgs, messages_height, scroll)
                          + messages_height)
          /\ Min(total_msgs,
                 WindowStart(total_msgs, messages_height, scroll)
                    + messages_height) <= Len(messages)
          /\ SliceInBounds
    /\ pc = "panicked" => last.op = "startup"

\* a receive task has pushed its status message between line 176 and the draw,
\* on a terminal with no room for messages
C20_Witness ==
    /\ pc = "draw" /\ Len(messages) > total_msgs
    /\ messages_height = 0 /\ total_msgs > 0

\* C14 (as claimed): no failed connect attempt ends the process: main never
\* panics on the result of connect_ws.
C14_Claim == ~(pc = "panicked" /\ last.op = "startup" /\ ~last.spawned)

\* the messages the client builds itself
StatusMessages ==
    {Disconnected, Reconnected}
        \cup {FailedTo(PromptUrl(l)) : l \in StdinLines}
        \cup {FailedTo(ServerCmdUrl(l)) : l \in ServerLines}
        \cup {ConnectedTo(ServerCmdUrl(l)) : l \in ServerLines}

\* C15: client_count changes only when the loop drains a message whose
\* client_count is positive, and becomes that value; a drained message with
\* client_count 0 leaves it as it is; every status message the client builds
\* carries 0; once positive the count is never 0 again.
C15_ClientCount ==
    /\ \A m \in StatusMessages : m.client_count = 0
    /\ [][ /\ client_count' # client_count =>
               /\ pc = "drain" /\ chan # <<>> /\ chan' = Tail(chan)
               /\ messages' = Append(messages, Head(chan))
               /\ Head(chan).client_count > 0
               /\ client_count' = Head(chan).client_count
           /\ (pc = "drain" /\ chan # <<>> /\ chan' = Tail(chan)) =>
               /\ Head(chan).client_count > 0 =>
                     client_count' = Head(chan).client_count
               /\ Head(chan).client_count = 0 => client_count' = client_count
           /\ client_count > 0 => client_count' > 0
         ]_vars

\* a message that reports no count was drained after one that reported 2
C15_Witness ==
    /\ client_count = 2 /\ messages # <<>> /\ pc = "drain"
    /\ messages[Len(messages)].msg_type # "status"
    /\ messages[Len(messages)].client_count = 0

\* C16: in Chat, "/join <room>" with a second token sets current_room to
\* that token, and the line goes to send_or_reconnect as it is; "/join " with
\* no second token leaves current_room as it is and goes to
\* send_or_reconnect as it is; nothing else changes current_room.
C16_Join ==
    [][ /\ ( /\ last'.op # "none" /\ mode = "Chat"
             /\ StartsWith(last'.line, P_join) ) =>
               /\ last'.op = "chat"
               /\ last'.called /\ last'.text = last'.line
               /\ last'.tries[1] = TextFrame("old", last'.line)
               /\ last'.wrote => last'.frames = <<TextFrame("old", last'.line)>>
               /\ IF Len(SplitWhitespace(last'.line)) >= 2
                  THEN current_room' = SplitWhitespace(last'.line)[2]
                  ELSE current_room' = current_room
        /\ current_room' # current_room =>
               /\ last'.op = "chat" /\ mode = "Chat"
               /\ StartsWith(last'.line, P_join)
               /\ Len(SplitWhitespace(last'.line)) >= 2
      ]_vars

\* "/join r" has changed the room and was written upstream
C16_Witness ==
    /\ last.op = "chat" /\ last.line = P_join \o <<"r">>
    /\ current_room = <<"r">> /\ last.wrote
    /\ last.frames = <<TextFrame("old", P_join \o <<"r">>)>>

\* C17: Ctrl+C and Esc end the loop in every mode and "/quit" ends it in Chat,
\* none of them sending, connecting or touching the log; Ctrl+C and Esc can
\* be pressed whenever the loop polls; once main has left the loop nothing
\* changes any more.
C17_Termination ==
    /\ [](pc = "poll" => (ENABLED CtrlC /\ ENABLED Esc))
    /\ [][ /\ last'.op \in {"ctrl_c", "esc", "quit"} =>
               /\ pc = "poll" /\ pc' = "done"
               /\ ~last'.called /\ last'.tries = <<>> /\ last'.frames = <<>>
               /\ last'.connects = <<>> /\ ~last'.spawned
               /\ messages' = messages /\ chan' = chan
               /\ ws_sink' = ws_sink
           /\ ( /\ last'.op # "none" /\ mode = "Chat" /\ pc = "poll"
                /\ last'.line = L_quit ) => last'.op = "quit"
           /\ last'.op = "quit" => (mode = "Chat" /\ last'.line = L_quit)
           /\ pc = "done" => UNCHANGED vars
         ]_vars

\* "/quit" has ended a session that held messages
C17_Witness ==
    /\ pc = "done" /\ last.op = "quit" /\ messages # <<>>

\* the status message a receive task pushes, spelled out
IsDisconnected(m) ==
    /\ m.msg_type = "status" /\ m.sender = "system"
    /\ m.content = <<"Disconnected from server.">>

\* C19: a "Disconnected from server." message enters the log only in a step
\* in which one running receive task ends, the stream of that task having
\* ended, and every task that ends pushes one; a task that has ended sends
\* nothing into the channel; a frame that is not text or does not decode
\* changes neither the log nor the channel and leaves the task running.
C19_TaskLifetime ==
    [][ /\ ( /\ Len(messages') = Len(messages) + 1
             /\ IsDisconnected(messages'[Len(messages')])
             /\ chan' = chan ) =>
               /\ SubSeq(messages', 1, Len(messages)) = messages
               /\ \/ /\ ws_task = "running" /\ ws_sink = "closed"
                     /\ ws_task' = "exited" /\ orphans' = orphans
                  \/ /\ orphans > 0 /\ orphans' = orphans - 1
                     /\ ws_task' = ws_task
        /\ ( \/ ws_task = "running" /\ ws_task' = "exited"
             \/ orphans' < orphans ) =>
               /\ Len(messages') = Len(messages) + 1
               /\ IsDisconnected(messages'[Len(messages')])
               /\ SubSeq(messages', 1, Len(messages)) = messages
        /\ ws_task = "exited" => (ws_task' = "exited" \/ last'.spawned)
        /\ Len(chan') > Len(chan) =>
               /\ ws_task = "running" /\ ws_sink = "open"
               /\ ws_task' = "running"
        /\ last'.op = "bad_frame" =>
               /\ messages' = messages /\ chan' = chan
               /\ ws_task = "running" /\ ws_task' = "running"
               /\ ws_sink' = ws_sink /\ orphans' = orphans
      ]_vars

\* a frame that does not decode was read by a task that had sent a message on
C19_Witness == last.op = "bad_frame" /\ ws_task = "running" /\ chan # <<>>

\* C11 (as claimed): the loop appends what it dequeues, in that order; the
\* log is only appended to or emptied; and when the receive task of the
\* connection pushes its "Disconnected from server." message, every message
\* it decoded is in the log already.
C11_Claim ==
    [][ /\ (pc = "drain" /\ chan # <<>> /\ chan' = Tail(chan)) =>
               messages' = Append(messages, Head(chan))
        /\ messages' # messages =>
               \/ messages' = <<>>
               \/ /\ Len(messages') = Len(messages) + 1
                  /\ SubSeq(messages', 1, Len(messages)) = messages
        /\ (ws_task = "running" /\ ws_task' = "exited") => own = 0
      ]_vars

\* C18 (as claimed): the log changes only in steps of the session loop: when
\* it drains the channel and when it handles a key.
C18_Claim ==
    [][ messages' # messages =>
            \/ /\ pc = "drain" /\ chan # <<>> /\ chan' = Tail(chan)
               /\ messages' = Append(messages, Head(chan))
            \/ pc = "poll" /\ pc' = "drain" /\ last'.op \notin {"none", "bad_frame"}
      ]_vars

====
